---- MODULE Spec2Model ----
(***************************************************************************)
(* A model of lightning_hivemind/strategy.py: the HivemindStrategy adapter *)
(* (constructor, per-batch hook, one-time optimizer construction,          *)
(* teardown) and the HiveMindScheduler shim.                               *)
(*                                                                         *)
(* Python values that may be None are records tagged with a type field, so *)
(* that isinstance() and `is None` are decided by the tag.  Strings that   *)
(* the code splits are sequences of one-character strings.                 *)
(***************************************************************************)
EXTENDS Integers, Sequences, FiniteSets, TLC

VARIABLES
    os_environ,        \* os.environ.get("PL_INITIAL_PEERS"): None or a str
    platform_system,   \* platform.system()
    args,              \* the arguments HivemindStrategy(...) is called with
    strategy,          \* the HivemindStrategy instance (None before __init__)
    trainer,           \* host trainer: optimizers, lr_scheduler_configs, precision
    lightning_module,  \* the LightningModule: optimizer_zero_grad hook
    hivemind,          \* the external library: DHT / Optimizer objects and calls
    host,              \* the host framework's position in the lifecycle
    shim,              \* a HiveMindScheduler instance under test (None if absent)
    shim_env           \* its optimizer's local_epoch, the wrapped scheduler, history

vars == <<os_environ, platform_system, args, strategy, trainer, lightning_module,
          hivemind, host, shim, shim_env>>

(***************************************************************************)
(* Bounds of the model.                                                    *)
(***************************************************************************)
MaxBatches == 3      \* on_train_batch_start calls per training run
MaxOptimizers == 2   \* optimizers the user's configure_optimizers registers
MaxEpoch == 4        \* largest local_epoch the external optimizer reports
MaxStepCalls == 4    \* HiveMindScheduler.step calls per run

(***************************************************************************)
(* Python values.                                                          *)
(***************************************************************************)
None == [type |-> "NoneType"]
Str(s) == [type |-> "str", val |-> s]
List(l) == [type |-> "list", val |-> l]
PyInt(n) == [type |-> "int", val |-> n]
PyBool(b) == [type |-> "bool", val |-> b]
Float(n) == [type |-> "float", val |-> n]
Dict(d) == [type |-> "dict", val |-> d]
Function(n) == [type |-> "function", name |-> n]

isinstance_str(x) == x.type = "str"

\* bool(x) for the values the model uses: None and False are falsy,
\* True, callables and objects are truthy
truthy(x) == x.type # "NoneType" /\ (x.type = "bool" => x.val)

\* Python's `a or b`: a when a is truthy, else b
py_or(a, b) == IF truthy(a) THEN a ELSE b

\* str.split(","): the pieces of s between commas, as str values
RECURSIVE split_from(_, _, _)
split_from(s, i, cur) ==
    IF i > Len(s) THEN <<Str(cur)>>
    ELSE IF s[i] = "," THEN <<Str(cur)>> \o split_from(s, i + 1, <<>>)
    ELSE split_from(s, i + 1, Append(cur, s[i]))

split(s) == List(split_from(s.val, 1, <<>>))

(***************************************************************************)
(* The inputs: constructor arguments and the environment.                  *)
(***************************************************************************)
\* the defaults of HivemindStrategy.__init__'s signature (target_batch_size
\* is required; the tests pass 1)
DefaultArgs ==
    [target_batch_size |-> PyInt(1),
     run_id |-> "lightning_run",
     batch_size |-> None,
     delay_state_averaging |-> PyBool(FALSE),
     delay_optimizer_step |-> None,
     delay_grad_averaging |-> PyBool(FALSE),
     offload_optimizer |-> None,
     reuse_grad_buffers |-> PyBool(FALSE),
     scheduler_fn |-> None,
     matchmaking_time |-> Float(5),
     averaging_timeout |-> Float(30),
     verbose |-> PyBool(FALSE),
     averager_opts |-> None,
     host_maddrs |-> None,
     initial_peers |-> None,
     use_ipfs |-> PyBool(FALSE),
     wait_timeout |-> PyInt(3),
     bootstrap_timeout |-> None,
     use_relay |-> PyBool(TRUE),
     use_auto_relay |-> PyBool(FALSE),
     identity_path |-> None]

\* arguments that steer the training lifecycle
LifecycleArgs ==
    {[DefaultArgs EXCEPT !.batch_size = b,
                         !.delay_state_averaging = dsa,
                         !.delay_optimizer_step = dos,
                         !.delay_grad_averaging = dga,
                         !.offload_optimizer = off,
                         !.reuse_grad_buffers = rgb,
                         !.scheduler_fn = fn] :
        b \in {None, PyInt(2)},
        dsa \in {PyBool(FALSE), PyBool(TRUE)},
        dos \in {None, PyBool(TRUE)},
        dga \in {PyBool(FALSE), PyBool(TRUE)},
        off \in {None, PyBool(TRUE)},
        rgb \in {PyBool(FALSE), PyBool(TRUE)},
        fn \in {None, Function("scheduler_fn")}}

\* arguments that configure the network side of the constructor
NetworkArgs ==
    {[DefaultArgs EXCEPT !.batch_size = PyInt(2),
                         !.initial_peers = ip,
                         !.host_maddrs = hm,
                         !.averaging_timeout = at,
                         !.averager_opts = ao,
                         !.wait_timeout = wt] :
        ip \in {None, Str(<<"c", ",", "d">>), List(<<Str(<<"c">>), Str(<<"d">>)>>)},
        hm \in {None, List(<<"/ip4/127.0.0.1/tcp/0">>)},
        at \in {None, Float(30)},
        ao \in {None, Dict([request_timeout |-> Float(7)])},
        wt \in {PyInt(3), PyInt(9)}}

\* values of the PL_INITIAL_PEERS environment variable (None: unset)
EnvPeers == {None, Str(<<"a", ",", "b">>), Str(<<"a">>)}

\* the user's optimizers and schedulers, as configure_optimizers returns them
UserOptimizer(i) == [type |-> "SGD", id |-> i]
UserOptimizers(n) == [i \in 1..n |-> UserOptimizer(i)]
LRSched == [type |-> "ExponentialLR"]
Plateau == [type |-> "ReduceLROnPlateau"]
SchedulerConfigs == {<<>>, <<LRSched>>, <<Plateau>>, <<LRSched, Plateau>>}

\* what dht.get_visible_maddrs() reports: one loopback and one routable address
VisibleMaddrs == <<[ip |-> "127.0.0.1", loopback |-> TRUE],
                   [ip |-> "10.0.0.5", loopback |-> FALSE]>>

NoShim == [type |-> "NoneType"]
\* The HiveMindScheduler's surroundings: its optimizer's local_epoch and the
\* number of step() calls the wrapped scheduler has received (step_count);
\* then history: the shim's step() calls so far, local_epoch at the latest
\* call (prev_epoch, local_epoch at creation before any call) and its highest
\* value at any call (high_epoch), what the latest call saw local_epoch
\* advance by and forwarded, current_step before the latest call, and the
\* global-step values steps were forwarded for.
NoShimEnv == [local_epoch |-> 0, step_count |-> 0, calls |-> 0,
              prev_epoch |-> 0, high_epoch |-> 0, last_advance |-> 0,
              last_forwarded |-> 0, prev_step |-> -1, forwarded_for |-> <<>>]

\* the external library: the DHT and Optimizer objects alive, the keyword
\* arguments of every hivemind.Optimizer(...) call, and the log of calls
FreshHivemind == [dhts |-> <<>>, optimizers |-> <<>>, optimizer_calls |-> <<>>,
                  events |-> <<>>]
FreshHost == [pc |-> "start", setup |-> FALSE, batches |-> 0, raised |-> "none",
              init_calls |-> 0, init_done |-> FALSE, returned |-> "unset"]

\* the state before HivemindStrategy(...) is called: the training lifecycle
Init ==
    /\ os_environ = None
    /\ platform_system = "Linux"
    /\ args \in LifecycleArgs
    /\ strategy = None
    /\ \E n \in 0..MaxOptimizers, sc \in SchedulerConfigs :
          trainer = [optimizers |-> UserOptimizers(n), lr_scheduler_configs |-> sc,
                     precision |-> "32", scaler |-> None]
    /\ \E ov \in BOOLEAN :
          lightning_module = [overridden |-> ov,
                              optimizer_zero_grad |-> IF ov THEN "user" ELSE "base"]
    /\ hivemind = FreshHivemind
    /\ host = FreshHost
    /\ shim = NoShim
    /\ shim_env = NoShimEnv

\* the state before HivemindStrategy(...) is called: the network configuration
CtorInit ==
    /\ os_environ \in EnvPeers
    /\ platform_system \in {"Linux", "Darwin"}
    /\ args \in NetworkArgs
    /\ strategy = None
    /\ \E pr \in {"32", "16"} :
          trainer = [optimizers |-> UserOptimizers(1), lr_scheduler_configs |-> <<LRSched>>,
                     precision |-> pr, scaler |-> None]
    /\ lightning_module = [overridden |-> FALSE, optimizer_zero_grad |-> "base"]
    /\ hivemind = FreshHivemind
    /\ host = FreshHost
    /\ shim = NoShim
    /\ shim_env = NoShimEnv

(***************************************************************************)
(* HivemindStrategy.__init__                                               *)
(***************************************************************************)
\* the value os.environ.get(INITIAL_PEERS_ENV, default) returns
environ_get(default) == IF os_environ.type = "NoneType" THEN default ELSE os_environ

\* _parse_env_initial_peers: the new value of self._initial_peers
_parse_env_initial_peers(self_initial_peers) ==
    LET initial_peers == environ_get(self_initial_peers)
    IN  IF isinstance_str(initial_peers) THEN split(initial_peers) ELSE self_initial_peers

\* a variant that forgets offload_optimizer
require_scheduler_fn_without_offload(a) ==
    py_or(a.delay_optimizer_step, a.delay_state_averaging)

\* self._require_scheduler_fn
require_scheduler_fn(a) ==
    py_or(py_or(a.delay_optimizer_step, a.delay_state_averaging), a.offload_optimizer)

\* self._optimizer_kwargs
optimizer_kwargs(a) ==
    [matchmaking_time |-> a.matchmaking_time,
     averaging_timeout |-> a.averaging_timeout,
     delay_optimizer_step |-> a.delay_optimizer_step,
     delay_state_averaging |-> a.delay_state_averaging,
     delay_grad_averaging |-> a.delay_grad_averaging,
     offload_optimizer |-> a.offload_optimizer,
     averager_opts |-> IF a.averaging_timeout.type # "NoneType" THEN a.averager_opts
                       ELSE Dict([request_timeout |-> Float(1)]),
     verbose |-> a.verbose,
     reuse_grad_buffers |-> a.reuse_grad_buffers]

\* the initial_peers keyword handed to hivemind.DHT
dht_initial_peers(a, self_initial_peers) == a.initial_peers

\* a variant that adds the supplied addresses to the defaults
dht_host_maddrs_merged(a) ==
    IF a.host_maddrs.type # "NoneType"
    THEN List(a.host_maddrs.val \o <<"/ip4/0.0.0.0/tcp/0", "/ip4/0.0.0.0/udp/0/quic">>)
    ELSE List(<<"/ip4/0.0.0.0/tcp/0", "/ip4/0.0.0.0/udp/0/quic">>)

\* the host_maddrs keyword handed to hivemind.DHT
dht_host_maddrs(a) ==
    IF a.host_maddrs.type # "NoneType" THEN a.host_maddrs
    ELSE List(<<"/ip4/0.0.0.0/tcp/0", "/ip4/0.0.0.0/udp/0/quic">>)

\* the keyword arguments of the hivemind.DHT(...) call
dht_kwargs(a, self_initial_peers) ==
    [start |-> PyBool(TRUE),
     initial_peers |-> dht_initial_peers(a, self_initial_peers),
     host_maddrs |-> dht_host_maddrs(a),
     use_ipfs |-> a.use_ipfs,
     ensure_bootstrap_success |-> PyBool(TRUE),
     wait_timeout |-> a.wait_timeout,
     bootstrap_timeout |-> a.bootstrap_timeout,
     use_relay |-> a.use_relay,
     use_auto_relay |-> a.use_auto_relay,
     identity_path |-> a.identity_path]

\* [str(a) for a in get_visible_maddrs() if not ...is_loopback]
RECURSIVE visible_addresses(_)
visible_addresses(maddrs) ==
    IF maddrs = <<>> THEN <<>>
    ELSE (IF Head(maddrs).loopback THEN <<>> ELSE <<Head(maddrs).ip>>)
         \o visible_addresses(Tail(maddrs))

\* whether __init__ logs the "Other machines can connect" message
logs_visible_addresses(a, self_initial_peers) == a.initial_peers.type = "NoneType"

DHTRef(i) == [type |-> "hivemind.DHT", id |-> i]
OptRef(i) == [type |-> "hivemind.Optimizer", id |-> i]

\* an entry of the log of calls into the external libraries and loggers
Ev(name) == [ev |-> name, addrs |-> <<>>]

\* a variant without the platform check
unsupported_platform_unchecked == FALSE

\* if platform.system() != "Linux"
unsupported_platform == platform_system # "Linux"

New ==
    /\ host.pc = "start"
    /\ IF unsupported_platform
       THEN /\ host' = [host EXCEPT !.pc = "ctor_failed",
                                    !.raised = "MisconfigurationException: Linux"]
            /\ UNCHANGED <<strategy, hivemind>>
       ELSE LET peers == _parse_env_initial_peers(args.initial_peers)
                dht == [kwargs |-> dht_kwargs(args, peers), status |-> "running"]
                info == IF logs_visible_addresses(args, peers)
                        THEN <<[ev |-> "log.info: connect",
                                addrs |-> visible_addresses(VisibleMaddrs)]>>
                        ELSE <<>>
            IN  /\ strategy' =
                     [type |-> "HivemindStrategy",
                      _initial_peers |-> peers,
                      _target_batch_size |-> args.target_batch_size,
                      _batch_size |-> args.batch_size,
                      _scheduler_fn |-> args.scheduler_fn,
                      _require_scheduler_fn |-> require_scheduler_fn(args),
                      _opt |-> None,
                      _optimizer_zero_grad_original |-> "None",
                      _run_id |-> args.run_id,
                      _reuse_grad_buffers |-> args.reuse_grad_buffers,
                      _optimizer_kwargs |-> optimizer_kwargs(args),
                      dht |-> DHTRef(Len(hivemind.dhts) + 1),
                      _hivemind_initialized |-> FALSE]
                /\ hivemind' = [hivemind EXCEPT
                                  !.dhts = Append(@, dht),
                                  !.events = @ \o <<Ev("hivemind.DHT")>>
                                               \o info]
                /\ host' = [host EXCEPT !.pc = "constructed"]
    /\ UNCHANGED <<os_environ, platform_system, args, trainer, lightning_module,
                   shim, shim_env>>

(***************************************************************************)
(* HivemindStrategy.setup                                                  *)
(***************************************************************************)
Setup ==
    /\ host.pc = "constructed"
    /\ ~host.setup
    /\ host' = [host EXCEPT !.setup = TRUE, !.raised = "none"]
    /\ trainer' = [trainer EXCEPT !.scaler = IF trainer.precision = "16"
                                             THEN [type |-> "hivemind.GradScaler"]
                                             ELSE @]
    /\ UNCHANGED <<os_environ, platform_system, args, strategy, lightning_module,
                   hivemind, shim, shim_env>>

(***************************************************************************)
(* HiveMindScheduler.__init__                                              *)
(***************************************************************************)
InitialStep == -1

HiveMindScheduler(optimizer, scheduler) ==
    [type |-> "HiveMindScheduler", optimizer |-> optimizer, scheduler |-> scheduler,
     current_step |-> InitialStep]

(***************************************************************************)
(* HivemindStrategy._wrap_schedulers: the scheduler configurations after   *)
(* the loop, and whether it raised ValueError on a ReduceLROnPlateau       *)
(***************************************************************************)
RECURSIVE wrap_from(_, _, _)
wrap_from(configs, i, opt) ==
    IF i > Len(configs) THEN [configs |-> configs, raised |-> FALSE]
    ELSE IF configs[i].type = "ReduceLROnPlateau"
         THEN [configs |-> configs, raised |-> TRUE]
         ELSE wrap_from([configs EXCEPT ![i] = HiveMindScheduler(opt, configs[i])],
                        i + 1, opt)

_wrap_schedulers(configs, opt) == wrap_from(configs, 1, opt)

(***************************************************************************)
(* HivemindStrategy._initialize_hivemind                                   *)
(***************************************************************************)
\* a variant whose limit is off by one
too_many_optimizers_off_by_one(optimizers) == Len(optimizers) > 2

too_many_optimizers(optimizers) == Len(optimizers) > 1

\* a variant that warns although a scheduler_fn was passed
warns_whenever_required(self) == truthy(self._require_scheduler_fn)

warns_missing_scheduler_fn(self) ==
    truthy(self._require_scheduler_fn) /\ self._scheduler_fn.type = "NoneType"

\* the keyword arguments of the hivemind.Optimizer(...) call
optimizer_call(self, optimizer) ==
    [dht |-> self.dht,
     run_id |-> self._run_id,
     params |-> IF truthy(self._require_scheduler_fn)
                THEN [type |-> "param_groups", of |-> optimizer.id] ELSE None,
     optimizer |-> IF truthy(self._require_scheduler_fn)
                   THEN [type |-> "type", of |-> optimizer.type] ELSE optimizer,
     scheduler |-> IF truthy(self._require_scheduler_fn) THEN self._scheduler_fn ELSE None,
     target_batch_size |-> self._target_batch_size,
     batch_size_per_step |-> self._batch_size,
     kwargs |-> self._optimizer_kwargs]

\* a variant that wraps although a scheduler_fn was passed
wraps_schedulers_always(self) == TRUE

wraps_schedulers(self) == ~truthy(self._scheduler_fn)

\* a variant that keeps the user's optimizers beside the new one
replace_optimizers_append(optimizers, opt) == Append(optimizers, opt)

\* self.optimizers = [opt]
replace_optimizers(optimizers, opt) == <<opt>>

\* _disable_zero_grad: the warning it emits and the module it leaves
disable_warning(lm) ==
    IF lm.overridden THEN <<Ev("rank_zero_warn: optimizer_zero_grad")>> ELSE <<>>

_disable_zero_grad(lm) == [lm EXCEPT !.optimizer_zero_grad = "None"]

\* The state _initialize_hivemind leaves, and the exception it raises ("none"
\* when it returns), entered with the strategy fields self and the external
\* library in state hm.  ctor_raises / load_raises: whether the external
\* hivemind.Optimizer(...) / load_state_from_peers() call fails.
_initialize_hivemind(self, hm, ctor_raises, load_raises) ==
    LET st == [strategy |-> self, trainer |-> trainer,
               lightning_module |-> lightning_module, hivemind |-> hm,
               raised |-> "none"]
    IN
    IF too_many_optimizers(trainer.optimizers)
    THEN [st EXCEPT !.raised = "MisconfigurationException: one optimizer"]
    ELSE IF Len(trainer.optimizers) = 0
    THEN [st EXCEPT !.raised = "IndexError"]
    ELSE
    LET optimizer == trainer.optimizers[1]
        warn == IF warns_missing_scheduler_fn(self)
                THEN <<Ev("rank_zero_warn: scheduler_fn")>> ELSE <<>>
        opt == OptRef(Len(hm.optimizers) + 1)
        hm1 == [hm EXCEPT !.events = @ \o warn \o <<Ev("hivemind.Optimizer")>>,
                          !.optimizer_calls = Append(@, optimizer_call(self, optimizer))]
        hm2 == [hm1 EXCEPT !.optimizers =
                   Append(@, [kwargs |-> optimizer_call(self, optimizer),
                              status |-> "running", loaded |-> FALSE])]
        wrapped == IF wraps_schedulers(self)
                   THEN _wrap_schedulers(trainer.lr_scheduler_configs, opt)
                   ELSE [configs |-> trainer.lr_scheduler_configs, raised |-> FALSE]
        tr1 == [trainer EXCEPT !.lr_scheduler_configs = wrapped.configs]
        hm3 == [hm2 EXCEPT !.events = @ \o <<Ev("load_state_from_peers")>>]
        hm4 == [hm3 EXCEPT !.optimizers[opt.id].loaded = TRUE]
        tr2 == [tr1 EXCEPT !.optimizers = replace_optimizers(@, opt)]
        self1 == [self EXCEPT !._opt = opt]
    IN
    IF ctor_raises
    THEN [st EXCEPT !.hivemind = hm1, !.raised = "hivemind: Optimizer"]
    ELSE IF wrapped.raised
    THEN [st EXCEPT !.hivemind = hm2, !.trainer = tr1,
                    !.raised = "ValueError: ReduceLROnPlateau"]
    ELSE IF load_raises
    THEN [st EXCEPT !.hivemind = hm3, !.trainer = tr1,
                    !.raised = "hivemind: load_state_from_peers"]
    ELSE IF truthy(self._reuse_grad_buffers)
    THEN [st EXCEPT
            !.strategy = [self1 EXCEPT !._optimizer_zero_grad_original =
                                           lightning_module.optimizer_zero_grad],
            !.trainer = tr2,
            !.hivemind = [hm4 EXCEPT !.events = @ \o disable_warning(lightning_module)],
            !.lightning_module = _disable_zero_grad(lightning_module)]
    ELSE [st EXCEPT !.strategy = self1, !.trainer = tr2, !.hivemind = hm4]

(***************************************************************************)
(* HivemindStrategy.on_train_batch_start                                   *)
(***************************************************************************)
\* what extract_batch_size(batch) does with the batches the host may pass
Batches == {[extract |-> "ok", size |-> 2],
            [extract |-> "MisconfigurationException", size |-> 0],
            [extract |-> "RecursionError", size |-> 0]}

\* a variant that forgets to set the flag
set_initialized_never(self) == self

set_initialized(self) == [self EXCEPT !._hivemind_initialized = TRUE]

\* a variant that infers the batch size even when one was supplied
needs_batch_size_inference_always(self) == TRUE

needs_batch_size_inference(self) == self._batch_size.type = "NoneType"

on_train_batch_start(batch, ctor_raises, load_raises) ==
    IF strategy._hivemind_initialized
    THEN /\ host' = [host EXCEPT !.batches = @ + 1, !.raised = "none"]
         /\ UNCHANGED <<strategy, trainer, lightning_module, hivemind>>
    ELSE
    LET self1 == set_initialized(strategy)
        infer == needs_batch_size_inference(self1)
        hm0 == IF infer
               THEN [hivemind EXCEPT !.events = @ \o <<Ev("extract_batch_size")>>]
               ELSE hivemind
    IN
    IF infer /\ batch.extract # "ok"
    THEN /\ strategy' = self1
         /\ hivemind' = hm0
         /\ host' = [host EXCEPT !.batches = @ + 1,
                                 !.raised = "MisconfigurationException: batch size"]
         /\ UNCHANGED <<trainer, lightning_module>>
    ELSE
    LET self2 == IF infer THEN [self1 EXCEPT !._batch_size = PyInt(batch.size)]
                 ELSE self1
        hm1 == IF infer
               THEN [hm0 EXCEPT !.events = @ \o <<Ev("log.info: batch size")>>]
               ELSE hm0
        res == _initialize_hivemind(self2, hm1, ctor_raises, load_raises)
    IN  /\ strategy' = res.strategy
        /\ trainer' = res.trainer
        /\ lightning_module' = res.lightning_module
        /\ hivemind' = res.hivemind
        /\ host' = [host EXCEPT !.batches = @ + 1,
                                !.raised = res.raised,
                                !.init_calls = @ + 1,
                                !.init_done = @ \/ res.raised = "none"]

OnTrainBatchStart ==
    /\ host.pc = "constructed"
    /\ host.setup
    /\ host.batches < MaxBatches
    /\ \E batch \in Batches, ctor_raises \in BOOLEAN, load_raises \in BOOLEAN :
          on_train_batch_start(batch, ctor_raises, load_raises)
    /\ UNCHANGED <<os_environ, platform_system, args, shim, shim_env>>

(***************************************************************************)
(* HivemindStrategy.teardown                                               *)
(***************************************************************************)
\* a variant that leaves the hook disabled
restore_zero_grad_skipped(self, lm) == lm

\* re-enable optimizer_zero_grad (the strategy's lightning_module is present
\* throughout a run, so only the saved hook decides)
restore_zero_grad(self, lm) ==
    IF self._optimizer_zero_grad_original # "None"
    THEN [lm EXCEPT !.optimizer_zero_grad = self._optimizer_zero_grad_original]
    ELSE lm

shuts_down_optimizer(self) == truthy(self._opt)

Teardown ==
    /\ host.pc = "constructed"
    /\ lightning_module' = restore_zero_grad(strategy, lightning_module)
    /\ LET hm1 == IF shuts_down_optimizer(strategy)
                  THEN [hivemind EXCEPT
                          !.optimizers[strategy._opt.id].status = "shutdown",
                          !.events = @ \o <<Ev("opt.shutdown")>>]
                  ELSE hivemind
       IN  hivemind' = [hm1 EXCEPT
                          !.dhts[strategy.dht.id].status = "shutdown",
                          !.events = @ \o <<Ev("log.info: shutting down"),
                                            Ev("dht.shutdown")>>]
    /\ host' = [host EXCEPT !.pc = "torn_down", !.raised = "none"]
    /\ UNCHANGED <<os_environ, platform_system, args, strategy, trainer, shim, shim_env>>

(***************************************************************************)
(* HivemindStrategy.reduce, all_gather, broadcast, barrier: each returns   *)
(* its argument (barrier: nothing) and touches no state of the strategy;   *)
(* the host keeps what the latest call returned                            *)
(***************************************************************************)
Collectives == {"reduce", "all_gather", "broadcast", "barrier"}

collective_result(op, x) == IF op = "barrier" THEN "None" ELSE x

Collective ==
    /\ host.pc = "constructed"
    /\ host.setup
    /\ \E op \in Collectives :
          host' = [host EXCEPT !.returned = collective_result(op, "tensor"),
                               !.raised = "none"]
    /\ UNCHANGED <<os_environ, platform_system, args, strategy, trainer,
                   lightning_module, hivemind, shim, shim_env>>

Next == New \/ Setup \/ OnTrainBatchStart \/ Collective \/ Teardown

Spec == Init /\ [][Next]_vars

CtorSpec == CtorInit /\ [][Next]_vars

(***************************************************************************)
(* HiveMindScheduler.step, by itself: a shim around a scheduler, bound to  *)
(* an optimizer whose local_epoch the external library moves.              *)
(***************************************************************************)
SchedInit ==
    /\ os_environ = None
    /\ platform_system = "Linux"
    /\ args = DefaultArgs
    /\ strategy = None
    /\ trainer = [optimizers |-> <<OptRef(1)>>, lr_scheduler_configs |-> <<>>,
                  precision |-> "32", scaler |-> None]
    /\ lightning_module = [overridden |-> FALSE, optimizer_zero_grad |-> "base"]
    /\ hivemind = FreshHivemind
    /\ host = FreshHost
    /\ shim = HiveMindScheduler(OptRef(1), LRSched)
    /\ shim_env = NoShimEnv

\* the loop condition of step()
lags(sh, env) == sh.current_step < env.local_epoch

\* while self.current_step < self.optimizer.local_epoch:
\*     self.scheduler.step(epoch=epoch); self.current_step += 1
RECURSIVE step_loop(_, _)
step_loop(sh, env) ==
    IF lags(sh, env)
    THEN step_loop([sh EXCEPT !.current_step = @ + 1],
                   [env EXCEPT !.step_count = @ + 1,
                               !.forwarded_for = Append(@, sh.current_step + 1)])
    ELSE [shim |-> sh, env |-> env]

\* the host framework calls the shim's step()
Step ==
    /\ shim.type = "HiveMindScheduler"
    /\ shim_env.calls < MaxStepCalls
    /\ LET res == step_loop(shim, shim_env)
       IN  /\ shim' = res.shim
           /\ shim_env' = [res.env EXCEPT
                             !.calls = @ + 1,
                             !.prev_epoch = shim_env.local_epoch,
                             !.high_epoch = IF shim_env.local_epoch > @
                                            THEN shim_env.local_epoch ELSE @,
                             !.last_advance = shim_env.local_epoch - shim_env.prev_epoch,
                             !.last_forwarded = res.env.step_count - shim_env.step_count,
                             !.prev_step = shim.current_step]
    /\ UNCHANGED <<os_environ, platform_system, args, strategy, trainer,
                   lightning_module, hivemind, host>>

\* the external optimizer completes global steps (or catches up with its peers)
Advance ==
    /\ shim.type = "HiveMindScheduler"
    /\ \E e \in (shim_env.local_epoch + 1)..MaxEpoch :
          shim_env' = [shim_env EXCEPT !.local_epoch = e]
    /\ UNCHANGED <<os_environ, platform_system, args, strategy, trainer,
                   lightning_module, hivemind, host, shim>>

\* the external optimizer's state is replaced by an earlier one
Rewind ==
    /\ shim.type = "HiveMindScheduler"
    /\ \E e \in 0..(shim_env.local_epoch - 1) :
          shim_env' = [shim_env EXCEPT !.local_epoch = e]
    /\ UNCHANGED <<os_environ, platform_system, args, strategy, trainer,
                   lightning_module, hivemind, host, shim>>

SchedNext == Step \/ Advance \/ Rewind

SchedSpec == SchedInit /\ [][SchedNext]_vars

(***************************************************************************)
(* Claims about HiveMindScheduler (checked under SchedSpec).               *)
(***************************************************************************)
Max0(n) == IF n > 0 THEN n ELSE 0

NoDuplicates(seq) == \A i, j \in 1..Len(seq) : seq[i] = seq[j] => i = j

\* C1: over any sequence of step() calls interleaved with advancements of the
\* optimizer's local_epoch, the wrapped scheduler receives exactly one
\* forwarded step per unit of advancement: a step() call that saw no
\* advancement forwards nothing, and the total number of forwarded steps
\* equals the total advancement of local_epoch (from its value at the shim's
\* creation, 0, to the highest value a step() call has seen).
C1_ForwardedEqualsAdvancement ==
    shim_env.calls >= 1 =>
        /\ shim_env.step_count = shim_env.high_epoch
        /\ (shim_env.last_advance <= 0 => shim_env.last_forwarded = 0)

\* C2: current_step never decreases and starts at -1; any single step() call,
\* the very first included, forwards no more steps than local_epoch advanced
\* since the previous step() call; and no two forwarded steps are issued for
\* the same global-step value.
C2_ForwardedWithinAdvancement ==
    /\ shim_env.calls = 0 => shim.current_step = -1
    /\ shim.current_step >= shim_env.prev_step
    /\ shim_env.calls >= 1 => shim_env.last_forwarded <= Max0(shim_env.last_advance)
    /\ NoDuplicates(shim_env.forwarded_for)

(***************************************************************************)
(* Claims about HivemindStrategy's lifecycle (checked under Spec).         *)
(***************************************************************************)
Constructed == strategy.type = "HivemindStrategy"

EventIndices(name) == {i \in 1..Len(hivemind.events) : hivemind.events[i].ev = name}
HasEvent(name) == EventIndices(name) # {}
CountEvents(name) == Cardinality(EventIndices(name))

Initialized(s) == s.type = "HivemindStrategy" /\ s._hivemind_initialized

\* C3: across any sequence of on_train_batch_start calls the flag
\* _hivemind_initialized goes from false to true exactly once, on the first
\* call, and never back; _initialize_hivemind is invoked only on that first
\* call and at most once in the instance's lifetime.
C3_InitializedExactlyOnce ==
    /\ [](Constructed => /\ (strategy._hivemind_initialized <=> host.batches >= 1)
                         /\ host.init_calls <= 1
                         /\ CountEvents("hivemind.Optimizer") <= host.init_calls
                         /\ (host.init_calls = 1 => strategy._hivemind_initialized))
    /\ [][/\ (Initialized(strategy) => Initialized(strategy'))
          /\ (host'.init_calls > host.init_calls =>
                 /\ host.batches = 0
                 /\ ~Initialized(strategy)
                 /\ Initialized(strategy'))]_vars

\* C3 witness: a second per-batch hook call has run after a first one that
\* invoked _initialize_hivemind
C3_Witness ==
    /\ Constructed
    /\ host.batches >= 2
    /\ host.init_calls = 1
    /\ strategy._hivemind_initialized

\* C4: _opt is None in every state before one-time construction completes;
\* once set it is never replaced; and after successful one-time construction
\* the trainer's optimizer list is exactly that single hivemind optimizer.
C4_SingleWrappedOptimizer ==
    /\ [](Constructed =>
            /\ (~host.init_done => strategy._opt = None)
            /\ (host.init_done =>
                   /\ strategy._opt.type = "hivemind.Optimizer"
                   /\ trainer.optimizers = <<strategy._opt>>))
    /\ [][(Constructed /\ strategy._opt # None) => strategy'._opt = strategy._opt]_vars

\* C4 witness: construction completed, and later hook calls and teardown ran
C4_Witness ==
    /\ host.init_done
    /\ host.batches >= 2
    /\ host.pc = "torn_down"
    /\ trainer.optimizers = <<OptRef(1)>>

IsUserOptimizer(o) == o.type = "SGD"

\* C5: if more than one optimizer is registered when the first per-batch hook
\* runs one-time construction, it fails with "Hivemind only supports training
\* with one optimizer.", and at that moment nothing has been replaced: the
\* trainer's optimizer list is unchanged, hivemind.Optimizer has not been
\* called and _opt is still None.
C5_MultipleOptimizersRejected ==
    /\ [][(host'.init_calls > host.init_calls /\ Len(trainer.optimizers) > 1) =>
             /\ host'.raised = "MisconfigurationException: one optimizer"
             /\ trainer' = trainer
             /\ hivemind'.optimizers = <<>>
             /\ ~\E i \in 1..Len(hivemind'.events) :
                    hivemind'.events[i].ev = "hivemind.Optimizer"
             /\ strategy'._opt = None]_vars
    /\ [](host.raised = "MisconfigurationException: one optimizer" =>
             /\ Len(trainer.optimizers) > 1
             /\ \A i \in 1..Len(trainer.optimizers) : IsUserOptimizer(trainer.optimizers[i])
             /\ hivemind.optimizers = <<>>
             /\ strategy._opt = None)

\* C5 witness: the first hook call ran into two registered optimizers
C5_Witness ==
    /\ host.raised = "MisconfigurationException: one optimizer"
    /\ Len(trainer.optimizers) = 2
    /\ host.init_calls = 1

\* C6: if no batch size was supplied and inferring it from the first batch
\* fails, on_train_batch_start fails with the MisconfigurationException
\* asking for the batch size, before any network call: hivemind.Optimizer is
\* not constructed and load_state_from_peers is not called.  When a batch
\* size was supplied, inference is never attempted.
C6_BatchSizeInferenceFailure ==
    /\ [](args.batch_size # None => ~HasEvent("extract_batch_size"))
    /\ []((HasEvent("extract_batch_size") /\ ~HasEvent("log.info: batch size")) =>
             /\ args.batch_size = None
             /\ host.init_calls = 0
             /\ hivemind.optimizers = <<>>
             /\ ~HasEvent("hivemind.Optimizer")
             /\ ~HasEvent("load_state_from_peers")
             /\ strategy._opt = None)
    /\ [](host.raised = "MisconfigurationException: batch size" =>
             HasEvent("extract_batch_size") /\ ~HasEvent("log.info: batch size"))
    /\ [][(/\ \E i \in 1..Len(hivemind'.events) :
                  hivemind'.events[i].ev = "extract_batch_size"
           /\ ~HasEvent("extract_batch_size")
           /\ ~\E i \in 1..Len(hivemind'.events) :
                  hivemind'.events[i].ev = "log.info: batch size")
          => host'.raised = "MisconfigurationException: batch size"]_vars

\* C6 witness: inference was attempted on the first batch and failed
C6_Witness ==
    /\ host.raised = "MisconfigurationException: batch size"
    /\ args.batch_size = None
    /\ host.batches = 1

\* C10: with reuse_grad_buffers enabled and a user-overridden
\* optimizer_zero_grad, a training run emits the "overridden
\* optimizer_zero_grad will be disabled" warning exactly once (at one-time
\* construction, never again), the hook is None only between one-time
\* construction and teardown, and after teardown it is the original
\* implementation again; with reuse_grad_buffers disabled the hook is never
\* modified.
C10_ZeroGradDisabledAndRestored ==
    LET original == IF lightning_module.overridden THEN "user" ELSE "base"
        warnings == CountEvents("rank_zero_warn: optimizer_zero_grad")
    IN  /\ (truthy(args.reuse_grad_buffers) /\ lightning_module.overridden) =>
              /\ warnings = (IF host.init_done THEN 1 ELSE 0)
              /\ (lightning_module.optimizer_zero_grad = "None" =>
                     host.init_done /\ host.pc = "constructed")
              /\ ((host.init_done /\ host.pc = "constructed") =>
                     lightning_module.optimizer_zero_grad = "None")
              /\ (host.pc = "torn_down" =>
                     lightning_module.optimizer_zero_grad = "user")
        /\ ~truthy(args.reuse_grad_buffers) =>
              /\ lightning_module.optimizer_zero_grad = original
              /\ warnings = 0

\* C10 witness: a run with reuse_grad_buffers and an overridden hook went
\* through one-time construction, further hook calls and teardown
C10_Witness ==
    /\ truthy(args.reuse_grad_buffers)
    /\ lightning_module.overridden
    /\ host.init_done
    /\ host.batches >= 2
    /\ host.pc = "torn_down"
    /\ lightning_module.optimizer_zero_grad = "user"
    /\ CountEvents("rank_zero_warn: optimizer_zero_grad") = 1

\* C9: for any lifecycle ending in teardown, the DHT peer handle is shut
\* down, and every hivemind.Optimizer constructed during one-time
\* construction (also when a later step of that construction failed) is shut
\* down, the optimizer's shutdown coming before the peer handle's.
C9_TeardownShutsEverythingDown ==
    host.pc = "torn_down" =>
        /\ \A i \in 1..Len(hivemind.dhts) : hivemind.dhts[i].status = "shutdown"
        /\ \A i \in 1..Len(hivemind.optimizers) :
              hivemind.optimizers[i].status = "shutdown"
        /\ \A i \in EventIndices("opt.shutdown"), j \in EventIndices("dht.shutdown") :
              i < j

(***************************************************************************)
(* Claims about the constructor's peer list (checked under CtorSpec).      *)
(***************************************************************************)
\* a peer argument as a list: a comma-separated str is split, a list is kept
AsPeerList(p) == IF isinstance_str(p) THEN split(p) ELSE p

\* the peer list the resolution order "explicit argument, else environment
\* variable" yields
ExplicitThenEnv ==
    IF args.initial_peers # None THEN AsPeerList(args.initial_peers)
    ELSE IF os_environ # None THEN split(os_environ)
    ELSE None

\* C7: for every combination of the initial_peers argument (absent, a
\* comma-separated str, a list) and PL_INITIAL_PEERS (unset, set),
\* _initial_peers is taken from the environment variable if and only if no
\* explicit peer list was passed (explicit argument, else environment
\* variable), and a str value is split on commas.
C7_ExplicitPeersBeforeEnv ==
    Constructed => strategy._initial_peers = ExplicitThenEnv

\* C8: the initial_peers hivemind.DHT is started with is the resolved peer
\* list (the explicit constructor list when given, otherwise the list parsed
\* from the environment variable), and the adapter logs its visible
\* non-loopback addresses exactly when no peers were supplied by either route.
C8_DhtJoinsResolvedPeers ==
    Constructed =>
        /\ hivemind.dhts[strategy.dht.id].kwargs.initial_peers
              \in {ExplicitThenEnv, args.initial_peers}
        /\ args.initial_peers = None =>
              hivemind.dhts[strategy.dht.id].kwargs.initial_peers = ExplicitThenEnv
        /\ HasEvent("log.info: connect") <=>
              (args.initial_peers = None /\ os_environ = None)

(***************************************************************************)
(* Claims about one-time construction and the delay/offload flags (checked *)
(* under Spec).                                                            *)
(***************************************************************************)
\* one of the flags __init__ folds into _require_scheduler_fn is enabled
AnyOfThreeFlags ==
    \/ truthy(args.delay_optimizer_step)
    \/ truthy(args.delay_state_averaging)
    \/ truthy(args.offload_optimizer)

AnyOfFourFlags == AnyOfThreeFlags \/ truthy(args.delay_grad_averaging)

NoSchedulerFn == args.scheduler_fn = None

\* one-time construction ran and found a single optimizer registered (the
\* list holds one optimizer before and after construction)
PassedOptimizerCheck == host.init_calls >= 1 /\ Len(trainer.optimizers) = 1

SchedulerFnWarnings == CountEvents("rank_zero_warn: scheduler_fn")

\* C11 as stated: if any of delay_state_averaging, delay_optimizer_step,
\* delay_grad_averaging, offload_optimizer is enabled and no scheduler_fn was
\* supplied, one-time construction emits the "requires a scheduler_fn" warning
\* exactly once per run; otherwise it is never emitted.
C11_AnyOfFourFlagsWarns ==
    /\ SchedulerFnWarnings <= 1
    /\ (AnyOfFourFlags /\ NoSchedulerFn /\ PassedOptimizerCheck) =>
           SchedulerFnWarnings = 1
    /\ ~(AnyOfFourFlags /\ NoSchedulerFn) => SchedulerFnWarnings = 0

\* C11 amended: if delay_state_averaging, delay_optimizer_step or
\* offload_optimizer is enabled and no scheduler_fn was supplied, the warning
\* is emitted exactly once per run, at one-time construction (once it has
\* found a single optimizer) and not on later hook calls, and construction
\* goes on to call hivemind.Optimizer; in every other configuration,
\* delay_grad_averaging alone included, it is never emitted.
C11_ThreeFlagsWarnOnce ==
    /\ (AnyOfThreeFlags /\ NoSchedulerFn) =>
           SchedulerFnWarnings = (IF PassedOptimizerCheck THEN 1 ELSE 0)
    /\ ~(AnyOfThreeFlags /\ NoSchedulerFn) => SchedulerFnWarnings = 0
    /\ \A i \in EventIndices("rank_zero_warn: scheduler_fn") :
           /\ i < Len(hivemind.events)
           /\ hivemind.events[i + 1].ev = "hivemind.Optimizer"

\* C11 witness: a run with a delay flag and no scheduler_fn was warned once at
\* construction, and a later hook call did not warn again
C11_Witness ==
    /\ AnyOfThreeFlags
    /\ NoSchedulerFn
    /\ host.init_done
    /\ host.batches >= 2
    /\ SchedulerFnWarnings = 1

\* the arguments of the (one) hivemind.Optimizer(...) call
OptimizerCalled == Len(hivemind.optimizer_calls) >= 1
TheCall == hivemind.optimizer_calls[1]

ByType ==
    /\ TheCall.optimizer = [type |-> "type", of |-> "SGD"]
    /\ TheCall.params = [type |-> "param_groups", of |-> 1]

ByObject ==
    /\ TheCall.optimizer = UserOptimizer(1)
    /\ TheCall.params = None

\* C12 as stated: the user's optimizer is handed to hivemind.Optimizer by type
\* with its parameter groups when any of delay_state_averaging,
\* delay_optimizer_step, delay_grad_averaging, offload_optimizer is active,
\* and as the instantiated object (no parameter groups) exactly when none is.
C12_ByTypeForAnyOfFourFlags ==
    OptimizerCalled => IF AnyOfFourFlags THEN ByType ELSE ByObject

\* C12 amended: by type with its parameter groups when delay_state_averaging,
\* delay_optimizer_step or offload_optimizer is active, and as the
\* instantiated object (no parameter groups) exactly when none of these three
\* is set, whatever delay_grad_averaging is.
C12_ByTypeForThreeFlags ==
    /\ Len(hivemind.optimizer_calls) <= 1
    /\ OptimizerCalled => IF AnyOfThreeFlags THEN ByType ELSE ByObject

\* C12 witness: hivemind.Optimizer was called with only offload_optimizer set
C12_Witness ==
    /\ OptimizerCalled
    /\ truthy(args.offload_optimizer)
    /\ ~truthy(args.delay_optimizer_step)
    /\ ~truthy(args.delay_state_averaging)
    /\ ByType

HasPlateau(configs) == \E i \in 1..Len(configs) : configs[i].type = "ReduceLROnPlateau"

\* C13: at one-time construction, if no scheduler_fn was given, every
\* scheduler in the trainer's scheduler configurations is replaced by a
\* HiveMindScheduler wrapping it and bound to the new hivemind optimizer (a
\* ReduceLROnPlateau instead raises ValueError); if a scheduler_fn was given,
\* no scheduler configuration is modified.  No other call touches them.
C13_SchedulersWrapped ==
    /\ [][host'.init_calls > host.init_calls =>
            LET before == trainer.lr_scheduler_configs
                after == trainer'.lr_scheduler_configs
            IN  /\ args.scheduler_fn # None => after = before
                /\ (args.scheduler_fn = None /\ host'.init_done) =>
                      /\ Len(after) = Len(before)
                      /\ strategy'._opt.type = "hivemind.Optimizer"
                      /\ \A i \in 1..Len(before) :
                            /\ after[i].type = "HiveMindScheduler"
                            /\ after[i].scheduler = before[i]
                            /\ after[i].optimizer = strategy'._opt
                /\ (/\ args.scheduler_fn = None
                    /\ HasPlateau(before)
                    /\ Len(hivemind'.optimizers) > Len(hivemind.optimizers)) =>
                      host'.raised = "ValueError: ReduceLROnPlateau"]_vars
    /\ [][host'.init_calls = host.init_calls =>
            trainer'.lr_scheduler_configs = trainer.lr_scheduler_configs]_vars

\* C13 witness: construction succeeded without a scheduler_fn and the
\* registered scheduler is now a HiveMindScheduler bound to the new optimizer
C13_Witness ==
    /\ host.init_done
    /\ NoSchedulerFn
    /\ Len(trainer.lr_scheduler_configs) = 1
    /\ trainer.lr_scheduler_configs[1] = HiveMindScheduler(strategy._opt, LRSched)

TheDht == hivemind.dhts[strategy.dht.id]

\* C14: on Linux the constructor starts exactly one DHT and no later call
\* (setup, on_train_batch_start, collectives, teardown) starts another; on any
\* other platform the constructor raises MisconfigurationException before any
\* DHT is started.
C14_ExactlyOneDht ==
    /\ host.pc = "start" => hivemind.dhts = <<>>
    /\ Constructed =>
          /\ platform_system = "Linux"
          /\ Len(hivemind.dhts) = 1
          /\ CountEvents("hivemind.DHT") = 1
          /\ strategy.dht = DHTRef(1)
    /\ platform_system # "Linux" =>
          /\ host.pc \in {"start", "ctor_failed"}
          /\ hivemind.dhts = <<>>
          /\ ~HasEvent("hivemind.DHT")
          /\ ~Constructed
    /\ host.pc = "ctor_failed" =>
          /\ platform_system # "Linux"
          /\ host.raised = "MisconfigurationException: Linux"

\* C14 witness: a whole lifecycle (setup, a batch hook that built the
\* optimizer, a collective, teardown) ran on Linux with a single DHT
C14_Witness ==
    /\ host.pc = "torn_down"
    /\ host.setup
    /\ host.init_done
    /\ host.returned # "unset"
    /\ Len(hivemind.dhts) = 1

\* C15: the host_maddrs handed to hivemind.DHT are exactly the two defaults
\* when the argument is not supplied and exactly the supplied list otherwise.
C15_ListenAddresses ==
    Constructed =>
        TheDht.kwargs.host_maddrs =
            IF args.host_maddrs = None
            THEN List(<<"/ip4/0.0.0.0/tcp/0", "/ip4/0.0.0.0/udp/0/quic">>)
            ELSE args.host_maddrs

\* C15 witness: a strategy was constructed with a supplied host_maddrs list
C15_Witness ==
    /\ Constructed
    /\ args.host_maddrs = List(<<"/ip4/127.0.0.1/tcp/0">>)
    /\ TheDht.kwargs.host_maddrs = args.host_maddrs

\* C16: the timeouts reach hivemind.DHT and hivemind.Optimizer unchanged, and
\* every other forwarded option, averager_opts in particular, equals the
\* constructor argument whatever the timeouts are.
C16_OptionsIndependentOfTimeouts ==
    /\ Constructed =>
          /\ TheDht.kwargs.wait_timeout = args.wait_timeout
          /\ TheDht.kwargs.bootstrap_timeout = args.bootstrap_timeout
          /\ strategy._optimizer_kwargs.averager_opts = args.averager_opts
    /\ OptimizerCalled =>
          /\ TheCall.kwargs.matchmaking_time = args.matchmaking_time
          /\ TheCall.kwargs.averaging_timeout = args.averaging_timeout
          /\ TheCall.kwargs.averager_opts = args.averager_opts
          /\ TheCall.kwargs.verbose = args.verbose
          /\ TheCall.kwargs.reuse_grad_buffers = args.reuse_grad_buffers
          /\ TheCall.kwargs.delay_optimizer_step = args.delay_optimizer_step
          /\ TheCall.kwargs.delay_state_averaging = args.delay_state_averaging
          /\ TheCall.kwargs.delay_grad_averaging = args.delay_grad_averaging
          /\ TheCall.kwargs.offload_optimizer = args.offload_optimizer

\* C17: in every reachable state, whatever on_train_batch_start calls came
\* before and whether or not they raised, _hivemind_initialized is true only
\* if _opt is present and trainer.optimizers has been replaced by it.
C17_InitializedOnlyWithOptimizer ==
    Initialized(strategy) =>
        /\ strategy._opt # None
        /\ trainer.optimizers = <<strategy._opt>>

\* C18: after successful one-time construction, either the supplied
\* scheduler_fn was handed to hivemind.Optimizer as its scheduler or every
\* scheduler registered with the trainer is a HiveMindScheduler; a supplied
\* scheduler_fn is never dropped with the schedulers left unwrapped.
C18_SchedulingTiedToGlobalStep ==
    host.init_done =>
        \/ /\ args.scheduler_fn # None
           /\ TheCall.scheduler = args.scheduler_fn
        \/ \A i \in 1..Len(trainer.lr_scheduler_configs) :
              trainer.lr_scheduler_configs[i].type = "HiveMindScheduler"

====
